---- MODULE Spec2Model ----
(***************************************************************************)
(* Risk-zone evaluation (client hook and check-risk-zone endpoint), the    *)
(* auto-alert gate and the alert fan-out of the SOS paths, the zone fetch   *)
(* of the client hook with its built-in sample zones, the geolocation       *)
(* watch of the location hook, and the SOS button of the home page.         *)
(*                                                                          *)
(* Numbers.  Coordinates are integer grid steps around the equator; one    *)
(* step of latitude or longitude is MetersPerStep metres of arc.  At that  *)
(* scale the haversine reduces to R * sqrt(dphi^2 + dlambda^2) (sin x = x, *)
(* cos phi = 1), which is what the distance operators compute, in whole    *)
(* metres.  Floating-point rounding is not represented.  Scores are        *)
(* integers in thousandths (800 stands for 0.8); base scores are even so   *)
(* that risk_score * 0.5 is exact.                                         *)
(***************************************************************************)
EXTENDS Integers, Sequences, FiniteSets, TLC

\* ------------------------------------------------------------------ bounds
MaxZones == 2
MaxCoord == 3
MaxLon == 1
MetersPerStep == 100

\* ------------------------------------------------------- values and zones
RiskLevel == {"safe", "at_risk", "emergency"}

\* JavaScript undefined for a missing key of time_of_day_risk
Undefined == -1

\* wall-clock hours used by the evaluations: both sides of 6 and of 18, and noon
Hours == {5, 6, 12, 17, 18}

\* time_of_day_risk: JSONB, nullable; isNull is SQL NULL, otherwise the
\* overrides present map a bucket label to a score
NullRisk == [isNull |-> TRUE, overrides |-> [b \in {} |-> 0]]
NoOverride == [isNull |-> FALSE, overrides |-> [b \in {} |-> 0]]
NightZeroDayTwo == [isNull |-> FALSE, overrides |-> [night |-> 0, day |-> 200]]
NightSix == [isNull |-> FALSE, overrides |-> [night |-> 600]]

\* the zero-radius record standing for "no zone" (null) in a result
NoZone == [id |-> 0, latitude |-> 0, longitude |-> 0, radius_meters |-> 0,
           risk_score |-> 0, risk_level |-> "safe", time_of_day_risk |-> NoOverride]

\* radius of the rows; the approach bands end at 300 and 450
Radii == {200, 300}

\* base score, level and overrides of the rows: a zero score, a zone of level
\* safe, plain zones of each level, a NULL column and the override shapes
Profiles ==
    { [risk_score |-> 0, risk_level |-> "at_risk", time_of_day_risk |-> NoOverride],
      [risk_score |-> 200, risk_level |-> "safe", time_of_day_risk |-> NoOverride],
      [risk_score |-> 400, risk_level |-> "at_risk", time_of_day_risk |-> NoOverride],
      [risk_score |-> 800, risk_level |-> "at_risk", time_of_day_risk |-> NoOverride],
      [risk_score |-> 800, risk_level |-> "emergency", time_of_day_risk |-> NoOverride],
      [risk_score |-> 800, risk_level |-> "emergency", time_of_day_risk |-> NullRisk],
      [risk_score |-> 800, risk_level |-> "at_risk", time_of_day_risk |-> NightZeroDayTwo],
      [risk_score |-> 400, risk_level |-> "emergency", time_of_day_risk |-> NightSix] }

\* rows of risk_zones without their id, all centred on the origin
ZoneRows ==
    { [latitude |-> 0, longitude |-> 0, radius_meters |-> r, risk_score |-> p.risk_score,
       risk_level |-> p.risk_level, time_of_day_risk |-> p.time_of_day_risk]
        : r \in Radii, p \in Profiles }

WithId(row, n) ==
    [id |-> n, latitude |-> row.latitude, longitude |-> row.longitude,
     radius_meters |-> row.radius_meters, risk_score |-> row.risk_score,
     risk_level |-> row.risk_level, time_of_day_risk |-> row.time_of_day_risk]

\* zone sequences of length n; the id of a row is its position (primary key)
ZoneSeqs(n) == { [k \in 1..n |-> WithId(f[k], k)] : f \in [1..n -> ZoneRows] }

\* -------------------------------------------------------------- distance
RECURSIVE SqrtSearch(_, _, _)
SqrtSearch(n, lo, hi) ==
    IF lo >= hi THEN lo
    ELSE LET mid == (lo + hi + 1) \div 2
         IN IF mid * mid <= n THEN SqrtSearch(n, mid, hi)
            ELSE SqrtSearch(n, lo, mid - 1)

Abs(x) == IF x < 0 THEN 0 - x ELSE x

\* Math.sqrt on whole numbers (floor); bound is any number >= the root
Sqrt(n, bound) == SqrtSearch(n, 0, bound)

\* the latitude term taken from the second point alone
getDistanceInMetersOneSided(lat1, lon1, lat2, lon2) ==
    LET dphi == lat2
        dlambda == lon2 - lon1
        a == dphi * dphi + dlambda * dlambda
    IN Sqrt(a * MetersPerStep * MetersPerStep, (Abs(lat2) + Abs(lon2 - lon1)) * MetersPerStep)

\* server: metres, R = 6371e3
getDistanceInMeters(lat1, lon1, lat2, lon2) ==
    LET dphi == lat2 - lat1
        dlambda == lon2 - lon1
        a == dphi * dphi + dlambda * dlambda
    IN Sqrt(a * MetersPerStep * MetersPerStep, (Abs(lat2 - lat1) + Abs(lon2 - lon1)) * MetersPerStep)

\* client: kilometres, R = 6371, as a fixed-point count of 1/1000 km
getDistanceFromLatLonInKm(lat1, lon1, lat2, lon2) ==
    LET dLat == lat2 - lat1
        dLon == lon2 - lon1
        a == dLat * dLat + dLon * dLon
    IN Sqrt(a * MetersPerStep * MetersPerStep, (Abs(lat2 - lat1) + Abs(lon2 - lon1)) * MetersPerStep)

\* "* 1000" of the client: fixed-point kilometres to metres
KmToMeters(km) == (km * 1000) \div 1000

\* -------------------------------------------------------- time weighting
\* the night starting one hour late
timeOfDayLate(h) == IF h > 18 \/ h < 6 THEN "night" ELSE "day"

timeOfDay(h) == IF h >= 18 \/ h < 6 THEN "night" ELSE "day"

\* zone.time_of_day_risk?.[timeOfDay]
Lookup(tod, bucket) ==
    IF tod.isNull THEN Undefined
    ELSE IF bucket \in DOMAIN tod.overrides THEN tod.overrides[bucket]
    ELSE Undefined

\* x || y : y when x is undefined or 0
OrElse(x, y) == IF x = Undefined \/ x = 0 THEN y ELSE x

timeRisk(zone, bucket) == OrElse(Lookup(zone.time_of_day_risk, bucket), zone.risk_score)

\* the approach score without its halving
approachingScoreFull(zone) == zone.risk_score

\* zone.risk_score * 0.5
approachingScore(zone) == zone.risk_score \div 2

\* the approach band reaching to twice the radius
ApproachRadiusDouble(zone) == zone.radius_meters * 2

\* zone.radius_meters * 1.5
ApproachRadius(zone) == (zone.radius_meters * 3) \div 2

\* ------------------------------------------------------ server evaluator
\* a running result that starts above the safe default
InitialRiskAtRisk == [level |-> "at_risk", score |-> 0, zone |-> NoZone, inZone |-> FALSE]

InitialRisk == [level |-> "safe", score |-> 0, zone |-> NoZone, inZone |-> FALSE]

\* the loop selecting a copy of the row that is not the row it was given
ServerStepCopy(hr, zone, lat, lon, bucket) ==
    LET distance == getDistanceInMeters(lat, lon, zone.latitude, zone.longitude)
        copy == [zone EXCEPT !.id = zone.id + MaxZones + 1]
    IN IF distance <= zone.radius_meters
       THEN IF timeRisk(zone, bucket) > hr.score
            THEN [level |-> zone.risk_level, score |-> timeRisk(zone, bucket),
                  zone |-> copy, inZone |-> TRUE]
            ELSE hr
       ELSE IF distance <= ApproachRadius(zone)
       THEN IF approachingScore(zone) > hr.score /\ hr.level = "safe"
            THEN [level |-> "at_risk", score |-> approachingScore(zone),
                  zone |-> copy, inZone |-> FALSE]
            ELSE hr
       ELSE hr

\* one iteration of the for loop of check-risk-zone
ServerStep(hr, zone, latitude, longitude, bucket) ==
    LET distance == getDistanceInMeters(latitude, longitude, zone.latitude, zone.longitude)
    IN IF distance <= zone.radius_meters
       THEN IF timeRisk(zone, bucket) > hr.score
            THEN [level |-> zone.risk_level, score |-> timeRisk(zone, bucket),
                  zone |-> zone, inZone |-> TRUE]
            ELSE hr
       ELSE IF distance <= ApproachRadius(zone)
       THEN IF approachingScore(zone) > hr.score /\ hr.level = "safe"
            THEN [level |-> "at_risk", score |-> approachingScore(zone),
                  zone |-> zone, inZone |-> FALSE]
            ELSE hr
       ELSE hr

RECURSIVE ServerLoop(_, _, _, _, _, _)
ServerLoop(hr, zs, k, latitude, longitude, bucket) ==
    IF k > Len(zs) THEN hr
    ELSE ServerLoop(ServerStep(hr, zs[k], latitude, longitude, bucket),
                    zs, k + 1, latitude, longitude, bucket)

\* the whole loop of the endpoint on the fetched rows
ServerEval(zs, latitude, longitude, h) ==
    ServerLoop(InitialRisk, zs, 1, latitude, longitude, timeOfDay(h))

\* ------------------------------------------------------ client evaluator
InitialClient == [level |-> "safe", score |-> 0, zone |-> NoZone, threw |-> FALSE]

\* the client loop letting a containing zone with an equal score replace the
\* selection
ClientStepTieLast(cs, zone, lat, lng, h) ==
    LET distance == KmToMeters(getDistanceFromLatLonInKm(lat, lng, zone.latitude, zone.longitude))
    IN IF cs.threw THEN cs
       ELSE IF distance <= zone.radius_meters
       THEN IF zone.time_of_day_risk.isNull
            THEN [cs EXCEPT !.threw = TRUE]
            ELSE IF timeRisk(zone, timeOfDay(h)) >= cs.score
            THEN [level |-> zone.risk_level, score |-> timeRisk(zone, timeOfDay(h)),
                  zone |-> zone, threw |-> FALSE]
            ELSE cs
       ELSE IF distance <= ApproachRadius(zone)
       THEN IF approachingScore(zone) > cs.score /\ cs.level = "safe"
            THEN [level |-> "at_risk", score |-> approachingScore(zone),
                  zone |-> zone, threw |-> FALSE]
            ELSE cs
       ELSE cs

\* one iteration of the for loop of checkRiskAtLocation; reading a bucket of
\* a null time_of_day_risk is a TypeError that leaves the function
ClientStep(cs, zone, lat, lng, h) ==
    LET distance == KmToMeters(getDistanceFromLatLonInKm(lat, lng, zone.latitude, zone.longitude))
    IN IF cs.threw THEN cs
       ELSE IF distance <= zone.radius_meters
       THEN IF zone.time_of_day_risk.isNull
            THEN [cs EXCEPT !.threw = TRUE]
            ELSE IF timeRisk(zone, timeOfDay(h)) > cs.score
            THEN [level |-> zone.risk_level, score |-> timeRisk(zone, timeOfDay(h)),
                  zone |-> zone, threw |-> FALSE]
            ELSE cs
       ELSE IF distance <= ApproachRadius(zone)
       THEN IF approachingScore(zone) > cs.score /\ cs.level = "safe"
            THEN [level |-> "at_risk", score |-> approachingScore(zone),
                  zone |-> zone, threw |-> FALSE]
            ELSE cs
       ELSE cs

RECURSIVE ClientLoop(_, _, _, _, _, _)
ClientLoop(cs, zs, k, lat, lng, h) ==
    IF k > Len(zs) THEN cs
    ELSE ClientLoop(ClientStep(cs, zs[k], lat, lng, h), zs, k + 1, lat, lng, h)

checkRiskAtLocation(zs, lat, lng, h) == ClientLoop(InitialClient, zs, 1, lat, lng, h)

\* ------------------------------------------------------------ variables
\* evaluation, step by step
VARIABLES riskZones, latitude, longitude, hour, pcEval, idx, highestRisk, clientRisk
\* the store and the handlers in flight
VARIABLES prefs, contacts, incidents, alerts, req, started

\* the state of useRiskZones and the location it is given
VARIABLES riskZonesState, currentRisk, riskScore, nearbyRiskZone, isLoading, location
\* an error thrown by an effect has unmounted the component tree
VARIABLES unmountedByError
\* useLocation: the watch id it holds (0 is null), its isTracking state, the
\* watches registered with navigator.geolocation, the id the next watch gets,
\* whether navigator.geolocation exists, and the last of its two calls
VARIABLES watchIdRef, isTracking, watches, nextWatchId, hasGeolocation, lastTrackingCall
\* SOSButton: its isPressed and pressTimer states, the timeout of the hold, the
\* press gesture under way and its number, the calls of onSOS made, the
\* notifications the button has shown; and the signed-in user of Home
VARIABLES isPressed, pressTimer, timer, gesture, gestureNo, calls, toasts, user

evalVars == <<riskZones, latitude, longitude, hour, pcEval, idx, highestRisk, clientRisk>>
storeVars == <<prefs, contacts, incidents, alerts, req, started>>
trackVars == <<watchIdRef, isTracking, watches, nextWatchId, hasGeolocation, lastTrackingCall>>
buttonVars == <<isPressed, pressTimer, timer, gesture, gestureNo, calls, toasts, user>>
hookVars == <<riskZonesState, currentRisk, riskScore, nearbyRiskZone, isLoading, location,
              unmountedByError, trackVars, buttonVars>>
vars == <<riskZones, latitude, longitude, hour, pcEval, idx, highestRisk, clientRisk,
          prefs, contacts, incidents, alerts, req, started,
          riskZonesState, currentRisk, riskScore, nearbyRiskZone, isLoading, location,
          unmountedByError,
          watchIdRef, isTracking, watches, nextWatchId, hasGeolocation, lastTrackingCall,
          isPressed, pressTimer, timer, gesture, gestureNo, calls, toasts, user>>

\* ------------------------------------------------- store and request data
MaxRequests == 2
MaxContacts == 2
\* watches the geolocation service hands out during a run
MaxWatches == 2
\* press gestures on the SOS button during a run
MaxGestures == 2

\* handler instances that can be in flight together
Slots == {1, 2}

\* the signed-in user; "" is an absent userId / no signed-in user
UserId == "u1"

\* user_preferences.auto_alert_on_risk_zone of the user: no row, or the flag
PrefValues == {"absent", "false", "true"}

\* outcome of an insert: stored and returned, rejected, or stored with the answer lost
InsertOutcomes == {"ok", "error", "lost"}
\* outcome of a select: rows returned, or an error with data = null
ReadOutcomes == {"ok", "error"}

\* risk_zones as the endpoint finds it
EmergencyZone == [id |-> 1, latitude |-> 0, longitude |-> 0, radius_meters |-> 200,
                  risk_score |-> 800, risk_level |-> "emergency", time_of_day_risk |-> NightSix]
AtRiskZone == [id |-> 2, latitude |-> 0, longitude |-> 0, radius_meters |-> 300,
               risk_score |-> 600, risk_level |-> "at_risk", time_of_day_risk |-> NoOverride]
ZoneTables == { <<>>, <<EmergencyZone, AtRiskZone>> }

\* clock of the endpoint while the requests are served
RequestHours == {18}

\* risk level the SOS callers report
SosLevels == {"emergency"}

\* a request goes to the first instance that is free
FirstFree(s) == req[s].pc = "idle" /\ \A t \in Slots : t < s => req[t].pc # "idle"

\* positions of the requests: inside both zones; inside the at_risk zone and
\* in the approach band of the emergency zone; in the approach band of the
\* at_risk zone only
RequestLatitudes == {0, 3, 4}

IdleRequest ==
    [kind |-> "none", pc |-> "idle", no |-> 0, latitude |-> 0, longitude |-> 0,
     userId |-> "", hasLocation |-> FALSE, riskLevel |-> "safe", result |-> InitialRisk,
     prefs |-> "unread", fired |-> FALSE, incident |-> 0, contacts |-> <<>>,
     contactsRead |-> "unread", alertsToCreate |-> <<>>, response |-> "none",
     zonesRead |-> "unread", incidentInsert |-> "none", alertsInsert |-> "none"]

\* ------------------------------------------------------------ row builders
\* the auto-alert incident written with the status of an SOS incident
RiskIncidentRowActive(r, id) ==
    [id |-> id, user_id |-> r.userId, latitude |-> r.latitude, longitude |-> r.longitude,
     alert_type |-> "risk_zone_entry", risk_level |-> r.result.level, status |-> "active",
     by |-> r.no]

\* check-risk-zone: the incident of an auto-alert
RiskIncidentRow(r, id) ==
    [id |-> id, user_id |-> r.userId, latitude |-> r.latitude, longitude |-> r.longitude,
     alert_type |-> "risk_zone_entry", risk_level |-> r.result.level, status |-> "pending",
     by |-> r.no]

\* send-sos-alert and handleSOS: the incident of an SOS
SosIncidentRow(r, id) ==
    [id |-> id, user_id |-> r.userId, latitude |-> r.latitude, longitude |-> r.longitude,
     alert_type |-> "sos", risk_level |-> r.riskLevel, status |-> "active",
     by |-> r.no]

\* an alert to one contact
ContactAlert(r, contactId) ==
    [incident_id |-> r.incident, contact_id |-> contactId, sent_to_police |-> FALSE,
     latitude |-> r.latitude, longitude |-> r.longitude, by |-> r.no]

\* the alert to the authorities; contact_id 0 is null
PoliceAlert(r) ==
    [incident_id |-> r.incident, contact_id |-> 0, sent_to_police |-> TRUE,
     latitude |-> r.latitude, longitude |-> r.longitude, by |-> r.no]

\* contacts.map(contact => ...)
ContactAlerts(r, cs) == [k \in 1..Len(cs) |-> ContactAlert(r, cs[k])]

\* the auto-alert batch with the police alert of the SOS path added
RiskAlertBatchWithPolice(r, cs) == ContactAlerts(r, cs) \o <<PoliceAlert(r)>>

\* check-risk-zone: alertsToCreate
RiskAlertBatch(r, cs) == ContactAlerts(r, cs)

\* the SOS batch without its police alert
SosAlertBatchNoPolice(r, cs) == IF Len(cs) > 0 THEN ContactAlerts(r, cs) ELSE <<>>

\* send-sos-alert: alertsToCreate, the contact alerts then the police alert
SosAlertBatch(r, cs) ==
    (IF Len(cs) > 0 THEN ContactAlerts(r, cs) ELSE <<>>) \o <<PoliceAlert(r)>>

\* ------------------------------------------------------------------ guards
\* the gate closed once the store holds a risk_zone_entry incident of the user
AutoAlertGateOnce(result, userId) ==
    /\ result.inZone /\ result.level = "emergency" /\ userId # ""
    /\ \A k \in 1..Len(incidents) :
            ~(incidents[k].alert_type = "risk_zone_entry" /\ incidents[k].user_id = userId)

\* the gate without its test of the level
AutoAlertGateAnyLevel(result, userId) == result.inZone /\ userId # ""

\* if (highestRisk.inZone && highestRisk.level === 'emergency' && userId)
AutoAlertGate(result, userId) ==
    result.inZone /\ result.level = "emergency" /\ userId # ""

\* the preference test letting everything but an explicit false pass
PrefsAllowUnlessFalse(p) == p # "false"

\* if (prefs?.auto_alert_on_risk_zone), on the value the select returned
PrefsAllow(p) == p = "true"

\* the fan-out entered whatever the insert returned
HasIncidentAlways(id) == TRUE

\* if (incident)
HasIncident(id) == id # 0

\* if (contacts && contacts.length > 0)
HasContacts(cs) == Len(cs) > 0

\* the fetch error of the zones not thrown
ZonesErrorIgnored(outcome) == FALSE

\* if (zonesError) throw zonesError
ZonesError(outcome) == outcome = "error"

\* data of a failed select is null: for (const zone of riskZones || [])
FetchedZones(outcome) == IF outcome = "ok" THEN riskZones ELSE <<>>

\* the response of check-risk-zone: the evaluation (status 200), or the message
\* of the catch (status 500); fields are the keys of the JSON body
RiskResponse(r) ==
    IF r.response = "error"
    THEN [status |-> 500, fields |-> {"error"},
          riskLevel |-> "", riskScore |-> Undefined, inRiskZone |-> FALSE]
    ELSE [status |-> 200,
          fields |-> {"riskLevel", "riskScore", "inRiskZone", "zoneName",
                      "zoneDescription", "nearbyZones"},
          riskLevel |-> r.result.level, riskScore |-> r.result.score,
          inRiskZone |-> r.result.inZone]

\* what a select of a preference row hands back for each outcome
ReadPrefs(outcome) == IF outcome = "ok" THEN prefs ELSE "error"

\* the id the store gives the next incident
NextIncidentId == Len(incidents) + 1

Respond(r, answer) == [r EXCEPT !.pc = "done", !.response = answer]

\* ------------------------------------------------------- the client hook
\* location === null
NoLocation == [latitude |-> 0 - 1, longitude |-> 0 - 1, known |-> FALSE]

LocationAt(lat, lon) == [latitude |-> lat, longitude |-> lon, known |-> TRUE]

\* useState initial values of SOSButton, nothing pressed yet; a user is signed in
ButtonIdle ==
    /\ isPressed = FALSE
    /\ pressTimer = "null"
    /\ timer = "none"
    /\ gesture = "idle"
    /\ gestureNo = 0
    /\ calls = <<>>
    /\ toasts = {}
    /\ user = UserId

\* useState initial values of useRiskZones and useLocation
HookUnmounted ==
    /\ riskZonesState = <<>>
    /\ currentRisk = "safe"
    /\ riskScore = 0
    /\ nearbyRiskZone = NoZone
    /\ isLoading = TRUE
    /\ location = NoLocation
    /\ unmountedByError = FALSE
    /\ watchIdRef = 0
    /\ isTracking = FALSE
    /\ watches = {}
    /\ nextWatchId = 1
    /\ lastTrackingCall = "none"

\* the built-in zones of the hook.  The grid origin is the centre of the first
\* (28.6139, 77.2090); the second lies 0.0061 degrees north and 0.0060 degrees
\* east of it, 7 and 6 steps of 100 m
sampleRiskZones ==
    << [id |-> 1, latitude |-> 0, longitude |-> 0, radius_meters |-> 1000,
        risk_score |-> 700, risk_level |-> "at_risk",
        time_of_day_risk |-> [isNull |-> FALSE, overrides |-> [night |-> 800, day |-> 400]]],
       [id |-> 2, latitude |-> 7, longitude |-> 6, radius_meters |-> 800,
        risk_score |-> 850, risk_level |-> "emergency",
        time_of_day_risk |-> [isNull |-> FALSE, overrides |-> [night |-> 950, day |-> 600]]] >>

\* the fetch keeping whatever the select returned
allZonesNoFallback(outcome, data) == IF outcome = "ok" THEN data ELSE <<>>

\* data && data.length > 0 ? data : sampleRiskZones, and the catch of the fetch
allZones(outcome, data) ==
    IF outcome = "ok" /\ Len(data) > 0 THEN data ELSE sampleRiskZones

\* positions the geolocation watch reports: around the origin, and one far
\* from every zone
HookLocations ==
    { LocationAt(lat, lon) : lat \in 0..MaxCoord, lon \in 0..MaxLon } \cup { LocationAt(40, 0) }

\* risk_zones as the hook finds it: the tables of the endpoint, and one whose
\* zone has no time_of_day_risk
NullRiskZone == [id |-> 1, latitude |-> 0, longitude |-> 0, radius_meters |-> 200,
                 risk_score |-> 800, risk_level |-> "emergency", time_of_day_risk |-> NullRisk]
HookZoneTables == ZoneTables \cup { <<NullRiskZone>> }

\* the effect with [riskZones] as its dependencies: a new location alone does
\* not run it
RiskUpdateEffectZonesOnly(zs, loc) ==
    IF loc.known /\ Len(zs) > 0 /\ zs # riskZonesState
    THEN LET r == checkRiskAtLocation(zs, loc.latitude, loc.longitude, hour)
         IN IF r.threw
            THEN /\ unmountedByError' = TRUE
                 /\ UNCHANGED <<currentRisk, riskScore, nearbyRiskZone>>
            ELSE /\ currentRisk' = r.level
                 /\ riskScore' = r.score
                 /\ nearbyRiskZone' = r.zone
                 /\ UNCHANGED unmountedByError
    ELSE UNCHANGED <<currentRisk, riskScore, nearbyRiskZone, unmountedByError>>

\* the risk update effect for the zones and location of the render; a
\* TypeError in checkRiskAtLocation is an error thrown by an effect: the three
\* setters are not reached and, with no error boundary, the tree is unmounted
RiskUpdateEffect(zs, loc) ==
    IF loc.known /\ Len(zs) > 0
    THEN LET r == checkRiskAtLocation(zs, loc.latitude, loc.longitude, hour)
         IN IF r.threw
            THEN /\ unmountedByError' = TRUE
                 /\ UNCHANGED <<currentRisk, riskScore, nearbyRiskZone>>
            ELSE /\ currentRisk' = r.level
                 /\ riskScore' = r.score
                 /\ nearbyRiskZone' = r.zone
                 /\ UNCHANGED unmountedByError
    ELSE UNCHANGED <<currentRisk, riskScore, nearbyRiskZone, unmountedByError>>

\* if (watchIdRef.current !== null) { clearWatch; watchIdRef.current = null;
\* setIsTracking(false) }; the setter does nothing once the component is gone
stopTrackingBody(mounted) ==
    IF watchIdRef # 0
    THEN /\ watches' = watches \ {watchIdRef}
         /\ watchIdRef' = 0
         /\ isTracking' = IF mounted THEN FALSE ELSE isTracking
    ELSE UNCHANGED <<watches, watchIdRef, isTracking>>

\* the cleanup of the mount effect of useLocation, run when the tree is
\* unmounted by the error of an effect
UnmountCleanup ==
    IF unmountedByError'
    THEN /\ stopTrackingBody(FALSE)
         /\ UNCHANGED <<nextWatchId, hasGeolocation, lastTrackingCall>>
    ELSE UNCHANGED trackVars

\* the test of startTracking removed
AlreadyTrackingNever(ref) == FALSE

\* if (watchIdRef.current !== null) return; // Already tracking
AlreadyTracking(ref) == ref # 0

HookInit ==
    /\ riskZones \in HookZoneTables
    /\ hour \in Hours
    /\ HookUnmounted
    /\ hasGeolocation = TRUE
    /\ ButtonIdle
    /\ latitude = 0
    /\ longitude = 0
    /\ pcEval = "off"
    /\ idx = 1
    /\ highestRisk = InitialRisk
    /\ clientRisk = InitialClient
    /\ prefs = "absent"
    /\ contacts = <<>>
    /\ incidents = <<>>
    /\ alerts = <<>>
    /\ req = [s \in Slots |-> IdleRequest]
    /\ started = 0

\* useRiskZones: the fetch of the mount effect, setRiskZones, then the risk
\* update effect of the next render
fetchRiskZones ==
    /\ ~unmountedByError
    /\ isLoading
    /\ \E outcome \in ReadOutcomes :
        /\ riskZonesState' = allZones(outcome, riskZones)
        /\ RiskUpdateEffect(allZones(outcome, riskZones), location)
    /\ isLoading' = FALSE
    /\ UNCHANGED location
    /\ UnmountCleanup
    /\ UNCHANGED buttonVars
    /\ UNCHANGED evalVars
    /\ UNCHANGED storeVars

\* useLocation: a position arrives, setLocation, then the risk update effect
handlePosition ==
    /\ ~unmountedByError
    /\ hasGeolocation
    /\ \E loc \in HookLocations :
        /\ location' = loc
        /\ RiskUpdateEffect(riskZonesState, loc)
    /\ UnmountCleanup
    /\ UNCHANGED buttonVars
    /\ UNCHANGED <<riskZonesState, isLoading>>
    /\ UNCHANGED evalVars
    /\ UNCHANGED storeVars

\* a check-risk-zone request for a position, on the same table and clock
RiskCheckAt ==
    /\ \E loc \in HookLocations :
        /\ latitude' = loc.latitude
        /\ longitude' = loc.longitude
        /\ highestRisk' = ServerEval(riskZones, loc.latitude, loc.longitude, hour)
    /\ UNCHANGED <<riskZones, hour, pcEval, idx, clientRisk>>
    /\ UNCHANGED storeVars
    /\ UNCHANGED hookVars

\* useLocation.startTracking
startTracking ==
    /\ ~unmountedByError
    /\ nextWatchId <= MaxWatches
    /\ lastTrackingCall' = "start"
    /\ IF ~hasGeolocation \/ AlreadyTracking(watchIdRef)
       THEN UNCHANGED <<watchIdRef, isTracking, watches, nextWatchId>>
       ELSE /\ isTracking' = TRUE
            /\ watchIdRef' = nextWatchId
            /\ watches' = watches \cup {nextWatchId}
            /\ nextWatchId' = nextWatchId + 1
    /\ UNCHANGED hasGeolocation
    /\ UNCHANGED <<riskZonesState, currentRisk, riskScore, nearbyRiskZone, isLoading, location,
                   unmountedByError>>
    /\ UNCHANGED buttonVars
    /\ UNCHANGED evalVars
    /\ UNCHANGED storeVars

\* useLocation.stopTracking
stopTracking ==
    /\ ~unmountedByError
    /\ lastTrackingCall' = "stop"
    /\ stopTrackingBody(TRUE)
    /\ UNCHANGED <<nextWatchId, hasGeolocation>>
    /\ UNCHANGED <<riskZonesState, currentRisk, riskScore, nearbyRiskZone, isLoading, location,
                   unmountedByError>>
    /\ UNCHANGED buttonVars
    /\ UNCHANGED evalVars
    /\ UNCHANGED storeVars

HookNext == fetchRiskZones \/ handlePosition \/ RiskCheckAt

SpecHook == HookInit /\ [][HookNext]_vars

\* useLocation with its two calls, on a device with or without geolocation
TrackInit ==
    /\ riskZones \in HookZoneTables
    /\ hour \in RequestHours
    /\ HookUnmounted
    /\ hasGeolocation \in BOOLEAN
    /\ ButtonIdle
    /\ latitude = 0
    /\ longitude = 0
    /\ pcEval = "off"
    /\ idx = 1
    /\ highestRisk = InitialRisk
    /\ clientRisk = InitialClient
    /\ prefs = "absent"
    /\ contacts = <<>>
    /\ incidents = <<>>
    /\ alerts = <<>>
    /\ req = [s \in Slots |-> IdleRequest]
    /\ started = 0

TrackNext == startTracking \/ stopTracking \/ handlePosition \/ fetchRiskZones

SpecTrack == TrackInit /\ [][TrackNext]_vars

\* ------------------------------------------------ evaluation, step by step
EvalInit ==
    /\ riskZones \in UNION { ZoneSeqs(n) : n \in 0..MaxZones }
    /\ latitude \in 0..MaxCoord
    /\ longitude \in 0..MaxLon
    /\ hour \in Hours
    /\ pcEval = "server"
    /\ idx = 1
    /\ highestRisk = InitialRisk
    /\ clientRisk = InitialClient
    /\ prefs = "absent"
    /\ contacts = <<>>
    /\ incidents = <<>>
    /\ alerts = <<>>
    /\ req = [s \in Slots |-> IdleRequest]
    /\ started = 0
    /\ HookUnmounted
    /\ hasGeolocation = TRUE
    /\ ButtonIdle

\* server: for (const zone of riskZones || [])
ServerIter ==
    /\ pcEval = "server"
    /\ idx <= Len(riskZones)
    /\ highestRisk' = ServerStep(highestRisk, riskZones[idx], latitude, longitude, timeOfDay(hour))
    /\ idx' = idx + 1
    /\ UNCHANGED <<riskZones, latitude, longitude, hour, pcEval, clientRisk>>
    /\ UNCHANGED storeVars
    /\ UNCHANGED hookVars

\* server loop exhausted; the client evaluates the same input
ServerLoopEnd ==
    /\ pcEval = "server"
    /\ idx > Len(riskZones)
    /\ pcEval' = "client"
    /\ idx' = 1
    /\ UNCHANGED <<riskZones, latitude, longitude, hour, highestRisk, clientRisk>>
    /\ UNCHANGED storeVars
    /\ UNCHANGED hookVars

\* client: for (const zone of riskZones)
ClientIter ==
    /\ pcEval = "client"
    /\ idx <= Len(riskZones)
    /\ ~clientRisk.threw
    /\ clientRisk' = ClientStep(clientRisk, riskZones[idx], latitude, longitude, hour)
    /\ idx' = idx + 1
    /\ UNCHANGED <<riskZones, latitude, longitude, hour, pcEval, highestRisk>>
    /\ UNCHANGED storeVars
    /\ UNCHANGED hookVars

\* client: return { level, score, zone }, or the TypeError leaves the call
ClientReturn ==
    /\ pcEval = "client"
    /\ idx > Len(riskZones) \/ clientRisk.threw
    /\ pcEval' = "done"
    /\ UNCHANGED <<riskZones, latitude, longitude, hour, idx, highestRisk, clientRisk>>
    /\ UNCHANGED storeVars
    /\ UNCHANGED hookVars

EvalNext == ServerIter \/ ServerLoopEnd \/ ClientIter \/ ClientReturn

SpecEval == EvalInit /\ [][EvalNext]_vars

\* --------------------------------------------------------- the endpoints
Init ==
    /\ riskZones \in ZoneTables
    /\ hour \in RequestHours
    /\ prefs \in PrefValues
    /\ contacts \in { [k \in 1..n |-> k] : n \in 0..MaxContacts }
    /\ incidents = <<>>
    /\ alerts = <<>>
    /\ req = [s \in Slots |-> IdleRequest]
    /\ started = 0
    /\ latitude = 0
    /\ longitude = 0
    /\ pcEval = "off"
    /\ idx = 1
    /\ highestRisk = InitialRisk
    /\ clientRisk = InitialClient
    /\ HookUnmounted
    /\ hasGeolocation = TRUE
    /\ ButtonIdle

\* check-risk-zone: the request body { latitude, longitude, userId? }
StartRiskCheck(s) ==
    /\ FirstFree(s)
    /\ started < MaxRequests
    /\ \E lat \in RequestLatitudes, uid \in {"", UserId} :
        req' = [req EXCEPT ![s] = [IdleRequest EXCEPT !.kind = "risk", !.pc = "fetchZones",
                                       !.no = started + 1, !.latitude = lat, !.userId = uid]]
    /\ started' = started + 1
    /\ UNCHANGED <<prefs, contacts, incidents, alerts>>
    /\ UNCHANGED evalVars
    /\ UNCHANGED hookVars

\* check-risk-zone: select of risk_zones, the loop over the rows, the first gate
RiskFetchZones(s) ==
    /\ req[s].kind = "risk" /\ req[s].pc = "fetchZones"
    /\ \E outcome \in ReadOutcomes :
        LET r == [req[s] EXCEPT !.zonesRead = outcome]
            result == ServerEval(FetchedZones(outcome), r.latitude, r.longitude, hour)
            evaluated == [r EXCEPT !.result = result]
        IN req' = [req EXCEPT ![s] =
                IF ZonesError(outcome) THEN Respond(r, "error")
                ELSE IF AutoAlertGate(result, r.userId) THEN [evaluated EXCEPT !.pc = "readPrefs"]
                ELSE Respond(evaluated, "ok")]
    /\ UNCHANGED <<prefs, contacts, incidents, alerts, started>>
    /\ UNCHANGED evalVars
    /\ UNCHANGED hookVars

\* check-risk-zone: select of the profile name and of the preference, second gate
RiskReadPrefs(s) ==
    /\ req[s].kind = "risk" /\ req[s].pc = "readPrefs"
    /\ \E outcome \in ReadOutcomes :
        LET r == [req[s] EXCEPT !.prefs = ReadPrefs(outcome)]
        IN req' = [req EXCEPT ![s] =
                IF PrefsAllow(r.prefs) THEN [r EXCEPT !.pc = "insertIncident"]
                ELSE Respond(r, "ok")]
    /\ UNCHANGED <<prefs, contacts, incidents, alerts, started>>
    /\ UNCHANGED evalVars
    /\ UNCHANGED hookVars

\* check-risk-zone: insert of the auto-alert incident, .select().single()
RiskInsertIncident(s) ==
    /\ req[s].kind = "risk" /\ req[s].pc = "insertIncident"
    /\ \E outcome \in InsertOutcomes :
        LET row == RiskIncidentRow(req[s], NextIncidentId)
            r == [req[s] EXCEPT !.fired = TRUE, !.incidentInsert = outcome,
                                !.incident = IF outcome = "ok" THEN row.id ELSE 0]
        IN /\ incidents' = IF outcome = "error" THEN incidents ELSE Append(incidents, row)
           /\ req' = [req EXCEPT ![s] =
                IF HasIncident(r.incident) THEN [r EXCEPT !.pc = "readContacts"]
                ELSE Respond(r, "ok")]
    /\ UNCHANGED <<prefs, contacts, alerts, started>>
    /\ UNCHANGED evalVars
    /\ UNCHANGED hookVars

\* check-risk-zone: select of the emergency contacts, alertsToCreate
RiskReadContacts(s) ==
    /\ req[s].kind = "risk" /\ req[s].pc = "readContacts"
    /\ \E outcome \in ReadOutcomes :
        LET r == [req[s] EXCEPT !.contactsRead = outcome,
                                !.contacts = IF outcome = "ok" THEN contacts ELSE <<>>]
        IN req' = [req EXCEPT ![s] =
                IF HasContacts(r.contacts)
                THEN [r EXCEPT !.alertsToCreate = RiskAlertBatch(r, r.contacts),
                               !.pc = "insertAlerts"]
                ELSE Respond(r, "ok")]
    /\ UNCHANGED <<prefs, contacts, incidents, alerts, started>>
    /\ UNCHANGED evalVars
    /\ UNCHANGED hookVars

\* check-risk-zone: insert of the batch (its error is not read), the response
RiskInsertAlerts(s) ==
    /\ req[s].kind = "risk" /\ req[s].pc = "insertAlerts"
    /\ \E outcome \in ReadOutcomes :
        /\ alerts' = IF outcome = "ok" THEN alerts \o req[s].alertsToCreate ELSE alerts
        /\ req' = [req EXCEPT ![s] = Respond([req[s] EXCEPT !.alertsInsert = outcome], "ok")]
    /\ UNCHANGED <<prefs, contacts, incidents, started>>
    /\ UNCHANGED evalVars
    /\ UNCHANGED hookVars

\* send-sos-alert: the request body { userId, latitude, longitude, userName, riskLevel }
StartSos(s) ==
    /\ FirstFree(s)
    /\ started < MaxRequests
    /\ \E lat \in {0}, level \in SosLevels :
        req' = [req EXCEPT ![s] = [IdleRequest EXCEPT !.kind = "sos", !.pc = "insertIncident",
                                       !.no = started + 1, !.latitude = lat,
                                       !.userId = UserId, !.riskLevel = level]]
    /\ started' = started + 1
    /\ UNCHANGED <<prefs, contacts, incidents, alerts>>
    /\ UNCHANGED evalVars
    /\ UNCHANGED hookVars

\* send-sos-alert: insert of the incident; incidentError is thrown to the catch
SosInsertIncident(s) ==
    /\ req[s].kind = "sos" /\ req[s].pc = "insertIncident"
    /\ \E outcome \in InsertOutcomes :
        LET row == SosIncidentRow(req[s], NextIncidentId)
        IN /\ incidents' = IF outcome = "error" THEN incidents ELSE Append(incidents, row)
           /\ req' = [req EXCEPT ![s] =
                IF outcome = "ok"
                THEN [req[s] EXCEPT !.incident = row.id, !.incidentInsert = outcome,
                                    !.pc = "readContacts"]
                ELSE Respond([req[s] EXCEPT !.incidentInsert = outcome], "error")]
    /\ UNCHANGED <<prefs, contacts, alerts, started>>
    /\ UNCHANGED evalVars
    /\ UNCHANGED hookVars

\* send-sos-alert: select of the contacts (an error is logged), alertsToCreate
SosReadContacts(s) ==
    /\ req[s].kind = "sos" /\ req[s].pc = "readContacts"
    /\ \E outcome \in ReadOutcomes :
        LET r == [req[s] EXCEPT !.contactsRead = outcome,
                                !.contacts = IF outcome = "ok" THEN contacts ELSE <<>>]
        IN req' = [req EXCEPT ![s] =
                [r EXCEPT !.alertsToCreate = SosAlertBatch(r, r.contacts),
                          !.pc = "insertAlerts"]]
    /\ UNCHANGED <<prefs, contacts, incidents, alerts, started>>
    /\ UNCHANGED evalVars
    /\ UNCHANGED hookVars

\* send-sos-alert: insert of the batch (alertsError is logged), success response
SosInsertAlerts(s) ==
    /\ req[s].kind = "sos" /\ req[s].pc = "insertAlerts"
    /\ \E outcome \in ReadOutcomes :
        /\ alerts' = IF outcome = "ok" THEN alerts \o req[s].alertsToCreate ELSE alerts
        /\ req' = [req EXCEPT ![s] = Respond([req[s] EXCEPT !.alertsInsert = outcome], "ok")]
    /\ UNCHANGED <<prefs, contacts, incidents, started>>
    /\ UNCHANGED evalVars
    /\ UNCHANGED hookVars

\* Home.handleSOS up to its first await: if (!user || !location) return, else
\* setIsSending(true) and the insert of the incident is issued
handleSOSGuard(s, uid, located, lat, level) ==
    LET r == [IdleRequest EXCEPT !.kind = "client", !.no = started + 1,
                                 !.latitude = lat, !.userId = uid,
                                 !.hasLocation = located, !.riskLevel = level]
    IN req' = [req EXCEPT ![s] =
            IF uid = "" \/ ~located THEN Respond(r, "returned")
            ELSE [r EXCEPT !.pc = "insertIncident"]]

\* Home.handleSOS called for a user and a location
StartClientSos(s) ==
    /\ FirstFree(s)
    /\ started < MaxRequests
    /\ \E uid \in {"", UserId}, located \in BOOLEAN, lat \in {0}, level \in SosLevels :
        /\ (uid = "" \/ ~located) => level = "safe"
        /\ handleSOSGuard(s, uid, located, lat, level)
    /\ started' = started + 1
    /\ UNCHANGED <<prefs, contacts, incidents, alerts>>
    /\ UNCHANGED evalVars
    /\ UNCHANGED hookVars

\* Home.handleSOS: insert of the incident; incidentError is rethrown to the caller
ClientInsertIncident(s) ==
    /\ req[s].kind = "client" /\ req[s].pc = "insertIncident"
    /\ \E outcome \in InsertOutcomes :
        LET row == SosIncidentRow(req[s], NextIncidentId)
        IN /\ incidents' = IF outcome = "error" THEN incidents ELSE Append(incidents, row)
           /\ req' = [req EXCEPT ![s] =
                IF outcome = "ok"
                THEN [req[s] EXCEPT !.incident = row.id, !.incidentInsert = outcome,
                                    !.pc = "readContacts"]
                ELSE Respond([req[s] EXCEPT !.incidentInsert = outcome], "threw")]
    /\ UNCHANGED <<prefs, contacts, alerts, started>>
    /\ UNCHANGED evalVars
    /\ UNCHANGED hookVars

\* Home.handleSOS: select of the contacts
ClientReadContacts(s) ==
    /\ req[s].kind = "client" /\ req[s].pc = "readContacts"
    /\ \E outcome \in ReadOutcomes :
        LET r == [req[s] EXCEPT !.contactsRead = outcome,
                                !.contacts = IF outcome = "ok" THEN contacts ELSE <<>>]
        IN req' = [req EXCEPT ![s] =
                IF HasContacts(r.contacts)
                THEN [r EXCEPT !.alertsToCreate = ContactAlerts(r, r.contacts),
                               !.pc = "insertContactAlerts"]
                ELSE [r EXCEPT !.pc = "insertPolice"]]
    /\ UNCHANGED <<prefs, contacts, incidents, alerts, started>>
    /\ UNCHANGED evalVars
    /\ UNCHANGED hookVars

\* Home.handleSOS: insert of the contact alerts (the answer is not read)
ClientInsertContactAlerts(s) ==
    /\ req[s].kind = "client" /\ req[s].pc = "insertContactAlerts"
    /\ \E outcome \in ReadOutcomes :
        alerts' = IF outcome = "ok" THEN alerts \o req[s].alertsToCreate ELSE alerts
    /\ req' = [req EXCEPT ![s].pc = "insertPolice"]
    /\ UNCHANGED <<prefs, contacts, incidents, started>>
    /\ UNCHANGED evalVars
    /\ UNCHANGED hookVars

\* Home.handleSOS: insert of the police alert (the answer is not read), the
\* toast; alertsToCreate then holds every alert row the action handed to the store
ClientInsertPolice(s) ==
    /\ req[s].kind = "client" /\ req[s].pc = "insertPolice"
    /\ \E outcome \in ReadOutcomes :
        alerts' = IF outcome = "ok" THEN Append(alerts, PoliceAlert(req[s])) ELSE alerts
    /\ req' = [req EXCEPT ![s] =
            Respond([req[s] EXCEPT !.alertsToCreate = Append(@, PoliceAlert(req[s]))], "ok")]
    /\ UNCHANGED <<prefs, contacts, incidents, started>>
    /\ UNCHANGED evalVars
    /\ UNCHANGED hookVars

\* the response has been delivered; the instance serves the next request
Release(s) ==
    /\ req[s].pc = "done"
    /\ req' = [req EXCEPT ![s] = IdleRequest]
    /\ UNCHANGED <<prefs, contacts, incidents, alerts, started>>
    /\ UNCHANGED evalVars
    /\ UNCHANGED hookVars

Next ==
    \E s \in Slots :
        \/ StartRiskCheck(s) \/ RiskFetchZones(s) \/ RiskReadPrefs(s)
        \/ RiskInsertIncident(s) \/ RiskReadContacts(s) \/ RiskInsertAlerts(s)
        \/ StartSos(s) \/ SosInsertIncident(s) \/ SosReadContacts(s) \/ SosInsertAlerts(s)
        \/ StartClientSos(s) \/ ClientInsertIncident(s) \/ ClientReadContacts(s)
        \/ ClientInsertContactAlerts(s) \/ ClientInsertPolice(s)
        \/ Release(s)

Spec == Init /\ [][Next]_vars

\* ---------------------------------------------------------- the SOS button
\* isSending of Home: true from setIsSending(true) to the finally of handleSOS
isSending == \E s \in Slots : req[s].kind = "client" /\ req[s].pc \notin {"idle", "done"}

\* a handleSOS has ended and the continuation of the await onSOS() that called
\* it, a microtask, has not run yet
Settling == \E s \in Slots : req[s].kind = "client" /\ req[s].pc = "done"

\* try { await onSOS(); toast "SOS Alert Sent" } catch { toast "Error" }
SettledToast(response) == IF response = "threw" THEN "error" ELSE "sent"

\* onSOS(): handleSOS with the user, location and currentRisk of Home
onSOS(s, via, early) ==
    /\ handleSOSGuard(s, user, location.known,
                      IF location.known THEN location.latitude ELSE 0,
                      IF user # "" /\ location.known THEN currentRisk ELSE "safe")
    /\ started' = started + 1
    /\ calls' = Append(calls, [gesture |-> gestureNo, via |-> via, early |-> early,
                               no |-> started + 1])

\* the positions Home has when the button is used: none yet, or the origin
ButtonLocations == { NoLocation, LocationAt(0, 0) }

ButtonInit ==
    /\ riskZones = <<>>
    /\ hour \in RequestHours
    /\ latitude = 0
    /\ longitude = 0
    /\ pcEval = "off"
    /\ idx = 1
    /\ highestRisk = InitialRisk
    /\ clientRisk = InitialClient
    /\ prefs = "absent"
    /\ contacts \in { [k \in 1..n |-> k] : n \in 0..MaxContacts }
    /\ incidents = <<>>
    /\ alerts = <<>>
    /\ req = [s \in Slots |-> IdleRequest]
    /\ started = 0
    /\ riskZonesState = sampleRiskZones
    /\ currentRisk = "safe"
    /\ riskScore = 0
    /\ nearbyRiskZone = NoZone
    /\ isLoading = FALSE
    /\ location \in ButtonLocations
    /\ unmountedByError = FALSE
    /\ watchIdRef = 1
    /\ isTracking = TRUE
    /\ watches = {1}
    /\ nextWatchId = 2
    /\ hasGeolocation = TRUE
    /\ lastTrackingCall = "start"
    /\ isPressed = FALSE
    /\ pressTimer = "null"
    /\ timer = "none"
    /\ gesture = "idle"
    /\ gestureNo = 0
    /\ calls = <<>>
    /\ toasts = {}
    /\ user \in {"", UserId}

\* SOSButton.handlePressStart, on mousedown; a disabled button gets no event
handlePressStart ==
    /\ gesture = "idle"
    /\ gestureNo < MaxGestures
    /\ ~Settling
    /\ gesture' = "down"
    /\ gestureNo' = gestureNo + 1
    /\ IF isSending
       THEN UNCHANGED <<isPressed, pressTimer, timer>>
       ELSE /\ isPressed' = TRUE
            /\ timer' = "pending"
            /\ pressTimer' = "set"
    /\ UNCHANGED <<calls, toasts, user>>
    /\ UNCHANGED <<riskZonesState, currentRisk, riskScore, nearbyRiskZone, isLoading, location,
                   unmountedByError>>
    /\ UNCHANGED trackVars
    /\ UNCHANGED evalVars
    /\ UNCHANGED storeVars

\* the timeout of handlePressStart, 1 second after the press: await onSOS()
holdTimerFires(s) ==
    /\ timer = "pending"
    /\ ~Settling
    /\ FirstFree(s)
    /\ started < MaxRequests
    /\ timer' = "fired"
    /\ onSOS(s, "hold", FALSE)
    /\ UNCHANGED <<isPressed, pressTimer, gesture, gestureNo, toasts, user>>
    /\ UNCHANGED <<riskZonesState, currentRisk, riskScore, nearbyRiskZone, isLoading, location,
                   unmountedByError>>
    /\ UNCHANGED trackVars
    /\ UNCHANGED evalVars
    /\ UNCHANGED <<prefs, contacts, incidents, alerts>>

\* SOSButton.handlePressEnd
handlePressEnd ==
    /\ isPressed' = FALSE
    /\ IF pressTimer # "null"
       THEN /\ timer' = IF timer = "pending" THEN "cleared" ELSE timer
            /\ pressTimer' = "null"
       ELSE UNCHANGED <<timer, pressTimer>>

\* the release over the button: mouseup runs handlePressEnd, then the click
\* runs handleClick, await onSOS(); a disabled button gets neither event
releaseAndClick(s) ==
    /\ gesture = "down"
    /\ ~Settling
    /\ gesture' = "idle"
    /\ IF isSending
       THEN /\ s = 1
            /\ UNCHANGED <<isPressed, pressTimer, timer, calls>>
            /\ UNCHANGED <<req, started>>
       ELSE /\ FirstFree(s)
            /\ started < MaxRequests
            /\ handlePressEnd
            /\ onSOS(s, "click", timer = "pending")
    /\ UNCHANGED <<gestureNo, toasts, user>>
    /\ UNCHANGED <<riskZonesState, currentRisk, riskScore, nearbyRiskZone, isLoading, location,
                   unmountedByError>>
    /\ UNCHANGED trackVars
    /\ UNCHANGED evalVars
    /\ UNCHANGED <<prefs, contacts, incidents, alerts>>

\* the pointer leaves the button while pressed: onMouseLeave runs
\* handlePressEnd and no click follows
mouseLeave ==
    /\ gesture = "down"
    /\ ~Settling
    /\ gesture' = "idle"
    /\ handlePressEnd
    /\ UNCHANGED <<gestureNo, calls, toasts, user>>
    /\ UNCHANGED <<riskZonesState, currentRisk, riskScore, nearbyRiskZone, isLoading, location,
                   unmountedByError>>
    /\ UNCHANGED trackVars
    /\ UNCHANGED evalVars
    /\ UNCHANGED storeVars

\* the continuation of await onSOS() in the timeout and in handleClick
sosSettled(s) ==
    /\ req[s].kind = "client" /\ req[s].pc = "done"
    /\ toasts' = toasts \cup { [no |-> req[s].no, title |-> SettledToast(req[s].response)] }
    /\ req' = [req EXCEPT ![s] = IdleRequest]
    /\ UNCHANGED <<isPressed, pressTimer, timer, gesture, gestureNo, calls, user>>
    /\ UNCHANGED <<riskZonesState, currentRisk, riskScore, nearbyRiskZone, isLoading, location,
                   unmountedByError>>
    /\ UNCHANGED trackVars
    /\ UNCHANGED evalVars
    /\ UNCHANGED <<prefs, contacts, incidents, alerts, started>>

ButtonNext ==
    \/ handlePressStart
    \/ mouseLeave
    \/ \E s \in Slots :
        \/ holdTimerFires(s) \/ releaseAndClick(s) \/ sosSettled(s)
        \/ ClientInsertIncident(s) \/ ClientReadContacts(s)
        \/ ClientInsertContactAlerts(s) \/ ClientInsertPolice(s)

SpecButton == ButtonInit /\ [][ButtonNext]_vars

\* ------------------------------------------------- claims on the evaluators
Contains(zone, lat, lon) ==
    getDistanceInMeters(lat, lon, zone.latitude, zone.longitude) <= zone.radius_meters

\* the bijections of 1..n
Perms(n) == { f \in [1..n -> 1..n] : \A a, b \in 1..n : f[a] = f[b] => a = b }

Permuted(zs, f) == [k \in 1..Len(zs) |-> zs[f[k]]]

\* C1: on the same point, zone sequence and hour the client evaluator returns
\* the level, score and selected zone the server evaluator returns.
C1_ClientEqualsServer ==
    pcEval = "done" =>
        /\ ~clientRisk.threw
        /\ clientRisk.level = highestRisk.level
        /\ clientRisk.score = highestRisk.score
        /\ clientRisk.zone = highestRisk.zone

\* C2: every permutation of the zone sequence evaluates to the same level and
\* the same score, on the server and on the client.
C2_OrderIndependent ==
    pcEval = "done" =>
        \A f \in Perms(Len(riskZones)) :
            /\ ServerEval(Permuted(riskZones, f), latitude, longitude, hour).level = highestRisk.level
            /\ ServerEval(Permuted(riskZones, f), latitude, longitude, hour).score = highestRisk.score
            /\ (~clientRisk.threw /\ ~checkRiskAtLocation(Permuted(riskZones, f), latitude, longitude, hour).threw) =>
                /\ checkRiskAtLocation(Permuted(riskZones, f), latitude, longitude, hour).level = clientRisk.level
                /\ checkRiskAtLocation(Permuted(riskZones, f), latitude, longitude, hour).score = clientRisk.score

\* C3: when some zone of the sequence contains the point with a positive
\* time-weighted score, the final result is inside = true and its selected
\* zone contains the point.
C3_ContainmentDominates ==
    (/\ pcEval = "done"
     /\ \E k \in 1..Len(riskZones) :
            /\ Contains(riskZones[k], latitude, longitude)
            /\ timeRisk(riskZones[k], timeOfDay(hour)) > 0)
    => /\ highestRisk.inZone
       /\ highestRisk.zone # NoZone
       /\ Contains(highestRisk.zone, latitude, longitude)
       /\ ~clientRisk.threw =>
            /\ clientRisk.zone # NoZone
            /\ Contains(clientRisk.zone, latitude, longitude)

\* C9: the selected zone of a result, when there is one, is an element of the
\* zone sequence the evaluation was given (server and client, at every step).
C9_SelectedZoneIsMember ==
    /\ highestRisk.zone # NoZone => \E k \in 1..Len(riskZones) : riskZones[k] = highestRisk.zone
    /\ clientRisk.zone # NoZone => \E k \in 1..Len(riskZones) : riskZones[k] = clientRisk.zone

C9_Witness ==
    /\ pcEval = "done"
    /\ Len(riskZones) = 2
    /\ highestRisk.zone = riskZones[2]
    /\ clientRisk.zone = riskZones[2]

\* C10: an empty zone sequence evaluates to level safe, score 0, no selected
\* zone and inside = false.
C10_EmptyIsSafe ==
    (pcEval \in {"client", "done"} /\ Len(riskZones) = 0) =>
        /\ highestRisk.level = "safe"
        /\ highestRisk.score = 0
        /\ highestRisk.zone = NoZone
        /\ highestRisk.inZone = FALSE
        /\ pcEval = "done" =>
            /\ ~clientRisk.threw
            /\ clientRisk.level = "safe"
            /\ clientRisk.score = 0
            /\ clientRisk.zone = NoZone

C10_Witness == pcEval = "done" /\ riskZones = <<>> /\ latitude = MaxCoord

\* ------------------------------------------------- claims on the endpoints
IncidentsBy(n) == { k \in 1..Len(incidents) : incidents[k].by = n }
AlertsBy(n) == { k \in 1..Len(alerts) : alerts[k].by = n }
AlertsOf(id) == { k \in 1..Len(alerts) : alerts[k].incident_id = id }

\* C4: a check-risk-zone request with a user id passes the auto-alert gate
\* (issues the incident insert) exactly when its result is inside = true and
\* level = emergency and the preference it obtained is true; the preference it
\* obtained is the stored one, and no incident is stored without the gate.
C4_AutoAlertGate ==
    \A s \in Slots :
        (req[s].kind = "risk" /\ req[s].userId # "" /\ req[s].pc = "done") =>
            /\ req[s].fired <=> (/\ req[s].result.inZone
                                 /\ req[s].result.level = "emergency"
                                 /\ req[s].prefs = "true")
            /\ req[s].prefs \notin {"unread", "error"} => req[s].prefs = prefs
            /\ IncidentsBy(req[s].no) # {} => req[s].fired

C4_Witness ==
    \E s \in Slots :
        /\ req[s].kind = "risk" /\ req[s].userId = UserId /\ req[s].pc = "done"
        /\ req[s].fired /\ prefs = "true"
        /\ IncidentsBy(req[s].no) # {}

\* C5: no request stores more than one incident; the incident of an auto-alert
\* has alert_type risk_zone_entry, status pending and the level of the result,
\* and a request whose insert returned the row has stored exactly one.
C5_OneIncidentPerRequest ==
    /\ \A n \in 1..started : Cardinality(IncidentsBy(n)) <= 1
    /\ \A s \in Slots : req[s].kind = "risk" =>
        /\ \A k \in IncidentsBy(req[s].no) :
            /\ incidents[k].alert_type = "risk_zone_entry"
            /\ incidents[k].status = "pending"
            /\ incidents[k].risk_level = req[s].result.level
        /\ req[s].incident # 0 => Cardinality(IncidentsBy(req[s].no)) = 1

C5_Witness ==
    \E s \in Slots :
        /\ req[s].kind = "risk" /\ req[s].pc = "done" /\ req[s].incident # 0
        /\ Cardinality(IncidentsBy(req[s].no)) = 1
        /\ started = MaxRequests

\* C6: the alert rows check-risk-zone builds for an incident are one per contact
\* it fetched, each with sent_to_police = false and a contact id; the rows
\* stored for a risk_zone_entry incident are that batch or nothing, never an
\* authority alert, and nothing when there is no contact.
C6_RiskAlertsAreContactAlerts ==
    /\ \A s \in Slots : req[s].kind = "risk" =>
        /\ req[s].contactsRead = "ok" => req[s].contacts = contacts
        /\ req[s].pc = "insertAlerts" => Len(req[s].alertsToCreate) = Len(req[s].contacts)
        /\ Len(req[s].alertsToCreate) \in {0, Len(req[s].contacts)}
        /\ \A k \in 1..Len(req[s].alertsToCreate) :
            /\ req[s].alertsToCreate[k].contact_id = req[s].contacts[k]
            /\ req[s].alertsToCreate[k].contact_id # 0
            /\ req[s].alertsToCreate[k].sent_to_police = FALSE
            /\ req[s].alertsToCreate[k].incident_id = req[s].incident
        /\ Cardinality(AlertsBy(req[s].no)) \in {0, Len(req[s].alertsToCreate)}
    /\ \A j \in 1..Len(incidents) : incidents[j].alert_type = "risk_zone_entry" =>
        /\ \A k \in AlertsOf(incidents[j].id) :
            alerts[k].sent_to_police = FALSE /\ alerts[k].contact_id # 0
        /\ Cardinality(AlertsOf(incidents[j].id)) \in {0, Len(contacts)}
        /\ \A c \in 1..Len(contacts) :
            Cardinality({ k \in AlertsOf(incidents[j].id) : alerts[k].contact_id = contacts[c] }) <= 1

C6_Witness ==
    \E j \in 1..Len(incidents) :
        /\ incidents[j].alert_type = "risk_zone_entry"
        /\ Len(contacts) = MaxContacts
        /\ Cardinality(AlertsOf(incidents[j].id)) = MaxContacts

\* C7: an SOS that reached its end, on send-sos-alert and in handleSOS, has
\* handed the store one alert per contact it fetched plus exactly one authority
\* alert (contact_id null, sent_to_police true): contacts plus one rows.
C7_SosAlerts ==
    \A s \in Slots :
        (req[s].kind \in {"sos", "client"} /\ req[s].pc = "done" /\ req[s].response = "ok") =>
            /\ req[s].contactsRead = "ok" => req[s].contacts = contacts
            /\ Len(req[s].alertsToCreate) = Len(req[s].contacts) + 1
            /\ \A k \in 1..Len(req[s].contacts) :
                /\ req[s].alertsToCreate[k].contact_id = req[s].contacts[k]
                /\ req[s].alertsToCreate[k].sent_to_police = FALSE
            /\ Cardinality({ k \in 1..Len(req[s].alertsToCreate) :
                    /\ req[s].alertsToCreate[k].contact_id = 0
                    /\ req[s].alertsToCreate[k].sent_to_police = TRUE }) = 1
            /\ \A k \in 1..Len(req[s].alertsToCreate) :
                req[s].alertsToCreate[k].incident_id = req[s].incident
            /\ req[s].incident # 0
            /\ \A k \in AlertsBy(req[s].no) :
                \E m \in 1..Len(req[s].alertsToCreate) : alerts[k] = req[s].alertsToCreate[m]

C7_Witness ==
    \E s, t \in Slots :
        /\ req[s].kind = "sos" /\ req[s].pc = "done" /\ req[s].response = "ok"
        /\ req[t].kind = "client" /\ req[t].pc = "done" /\ req[t].response = "ok"
        /\ Len(contacts) = MaxContacts
        /\ Cardinality(AlertsBy(req[s].no)) = MaxContacts + 1
        /\ Cardinality(AlertsBy(req[t].no)) = MaxContacts + 1

\* C8: every alert row references exactly one stored incident, and that
\* incident was stored by the same request or SOS action; a request whose
\* incident insert handed back no row stores no alert.
C8_AlertsReferenceIncident ==
    /\ \A k \in 1..Len(alerts) :
        /\ Cardinality({ j \in 1..Len(incidents) : incidents[j].id = alerts[k].incident_id }) = 1
        /\ \E j \in 1..Len(incidents) :
            incidents[j].id = alerts[k].incident_id /\ incidents[j].by = alerts[k].by
    /\ \A s \in Slots :
        (req[s].kind # "none" /\ req[s].incident = 0) => AlertsBy(req[s].no) = {}

C8_Witness ==
    \E s \in Slots :
        /\ req[s].kind = "risk" /\ req[s].pc = "done" /\ req[s].fired
        /\ req[s].incident = 0
        /\ Len(contacts) > 0
        /\ Len(alerts) > 0

\* ------------------------------------- claims on the steps of an evaluation
\* a step of the server loop and of the client loop
IsServerIter == pcEval = "server" /\ idx <= Len(riskZones) /\ idx' = idx + 1
IsClientIter == pcEval = "client" /\ idx <= Len(riskZones) /\ idx' = idx + 1

\* radius < d <= 1.5 x radius, and d > 1.5 x radius, for the zone at idx
InBand(zone) ==
    LET d == getDistanceInMeters(latitude, longitude, zone.latitude, zone.longitude)
    IN d > zone.radius_meters /\ 2 * d <= 3 * zone.radius_meters
Beyond(zone) ==
    2 * getDistanceInMeters(latitude, longitude, zone.latitude, zone.longitude)
        > 3 * zone.radius_meters

RECURSIVE MaxTimeRisk(_, _, _)
MaxTimeRisk(zs, k, bucket) ==
    IF k > Len(zs) THEN 0
    ELSE LET rest == MaxTimeRisk(zs, k + 1, bucket)
         IN IF timeRisk(zs[k], bucket) > rest THEN timeRisk(zs[k], bucket) ELSE rest

\* C12: the bucket of an evaluation is night exactly when hour >= 18 or
\* hour < 6 and day otherwise: a single containing zone is scored with its
\* night value in those hours and with its day value in all others.
C12_TimeBucket ==
    (/\ pcEval = "done" /\ Len(riskZones) = 1
     /\ Contains(riskZones[1], latitude, longitude)
     /\ ~riskZones[1].time_of_day_risk.isNull)
    => LET expected == IF hour >= 18 \/ hour < 6 THEN timeRisk(riskZones[1], "night")
                       ELSE timeRisk(riskZones[1], "day")
       IN /\ highestRisk.score = expected
          /\ clientRisk.score = expected
          /\ hour \in 6..17 => highestRisk.score = timeRisk(riskZones[1], "day")

C12_Witness ==
    /\ pcEval = "done" /\ Len(riskZones) = 1
    /\ hour = 18
    /\ riskZones[1].time_of_day_risk = NightSix
    /\ highestRisk.score = 600 /\ clientRisk.score = 600

\* C13: the score of a single containing zone is its override for the current
\* bucket whenever time_of_day_risk holds one, whatever its value (0 as well),
\* and its base risk_score only when there is none.
C13_OverrideWhenPresent ==
    (/\ pcEval = "done" /\ Len(riskZones) = 1
     /\ Contains(riskZones[1], latitude, longitude)
     /\ ~riskZones[1].time_of_day_risk.isNull)
    => LET overrides == riskZones[1].time_of_day_risk.overrides
           bucket == timeOfDay(hour)
           expected == IF bucket \in DOMAIN overrides THEN overrides[bucket]
                       ELSE riskZones[1].risk_score
       IN highestRisk.score = expected /\ clientRisk.score = expected

\* C14: a single zone whose centre is at most its radius away (the radius
\* itself included) gives its risk_level, itself as the selected zone and
\* inside = true, for every score it carries.
C14_SingleZoneContainment ==
    (/\ pcEval = "done" /\ Len(riskZones) = 1
     /\ getDistanceInMeters(latitude, longitude, riskZones[1].latitude, riskZones[1].longitude)
            <= riskZones[1].radius_meters)
    => /\ highestRisk.level = riskZones[1].risk_level
       /\ highestRisk.zone = riskZones[1]
       /\ highestRisk.inZone
       /\ ~clientRisk.threw =>
            /\ clientRisk.level = riskZones[1].risk_level
            /\ clientRisk.zone = riskZones[1]

\* C15: a zone in the approach band (radius < d <= 1.5 x radius) met while the
\* running result is at level safe with a score below half the zone's base
\* risk_score sets the result to at_risk, half the base score, that zone,
\* inside = false; a zone beyond 1.5 x radius leaves the result as it was.
C15_ApproachStep ==
    [][ /\ IsServerIter =>
            /\ (/\ InBand(riskZones[idx]) /\ highestRisk.level = "safe"
                 /\ 2 * highestRisk.score < riskZones[idx].risk_score)
                => /\ highestRisk'.level = "at_risk"
                   /\ 2 * highestRisk'.score = riskZones[idx].risk_score
                   /\ highestRisk'.zone = riskZones[idx]
                   /\ highestRisk'.inZone = FALSE
            /\ Beyond(riskZones[idx]) => highestRisk' = highestRisk
        /\ IsClientIter =>
            /\ (/\ InBand(riskZones[idx]) /\ clientRisk.level = "safe"
                 /\ 2 * clientRisk.score < riskZones[idx].risk_score)
                => /\ clientRisk'.level = "at_risk"
                   /\ 2 * clientRisk'.score = riskZones[idx].risk_score
                   /\ clientRisk'.zone = riskZones[idx]
                   /\ ~clientRisk'.threw
            /\ Beyond(riskZones[idx]) => clientRisk' = clientRisk ]_vars

C15_Witness ==
    /\ pcEval = "done"
    /\ timeOfDay(hour) = "night"
    /\ highestRisk.zone # NoZone /\ ~highestRisk.inZone
    /\ highestRisk.zone.time_of_day_risk = NightSix
    /\ highestRisk.level = "at_risk" /\ highestRisk.score = 200
    /\ clientRisk = [level |-> "at_risk", score |-> 200, zone |-> highestRisk.zone,
                      threw |-> FALSE]
    /\ \E k \in 1..Len(riskZones) : Beyond(riskZones[k])

\* C16: when every zone of the sequence contains the point, the score of the
\* result is the largest time-weighted score of the zones and its level is the
\* risk_level of a zone with that score.
C16_MaxOfContained ==
    (/\ pcEval = "done" /\ Len(riskZones) >= 1
     /\ \A k \in 1..Len(riskZones) : Contains(riskZones[k], latitude, longitude))
    => LET m == MaxTimeRisk(riskZones, 1, timeOfDay(hour))
       IN /\ highestRisk.score = m
          /\ \E k \in 1..Len(riskZones) :
                /\ timeRisk(riskZones[k], timeOfDay(hour)) = m
                /\ riskZones[k].risk_level = highestRisk.level
          /\ ~clientRisk.threw =>
                /\ clientRisk.score = m
                /\ \E k \in 1..Len(riskZones) :
                        /\ timeRisk(riskZones[k], timeOfDay(hour)) = m
                        /\ riskZones[k].risk_level = clientRisk.level

\* C17: once an earlier zone of the sequence has set the running result, a
\* zone in the approach band leaves level, score, selected zone and inside
\* unchanged.
C17_ApproachOnlyFromUntouched ==
    [][ /\ (IsServerIter /\ highestRisk # InitialRisk /\ InBand(riskZones[idx]))
            => highestRisk' = highestRisk
        /\ (IsClientIter /\ clientRisk # InitialClient /\ InBand(riskZones[idx]))
            => clientRisk' = clientRisk ]_vars

\* zones the server loop and the client loop have gone through at position i
ServerSeen(pc, i) == IF pc = "server" THEN i - 1 ELSE Len(riskZones)
ClientSeen(pc, i) ==
    IF pc = "client" THEN i - 1 ELSE IF pc = "done" THEN Len(riskZones) ELSE 0

\* a selected containing zone has the largest time-weighted score of the zones
\* gone through that contain the point, and is the first of them with it
FirstWins(hr, cr, pc, i) ==
    /\ hr.inZone =>
        \A k \in 1..ServerSeen(pc, i) :
            Contains(riskZones[k], latitude, longitude) =>
                /\ timeRisk(riskZones[k], timeOfDay(hour)) <= hr.score
                /\ timeRisk(riskZones[k], timeOfDay(hour)) = hr.score
                   => hr.zone.id <= k
    /\ (/\ ~cr.threw
        /\ cr.zone # NoZone
        /\ Contains(cr.zone, latitude, longitude)) =>
        \A k \in 1..ClientSeen(pc, i) :
            Contains(riskZones[k], latitude, longitude) =>
                /\ timeRisk(riskZones[k], timeOfDay(hour)) <= cr.score
                /\ timeRisk(riskZones[k], timeOfDay(hour)) = cr.score
                   => cr.zone.id <= k

\* C27: a containing zone whose time-weighted score equals the score of the
\* running result never replaces the selection, and a selected containing zone
\* is the first zone of the sequence among the containing zones whose
\* time-weighted score is the largest.
C27_FirstWinsTies ==
    [][ /\ (/\ IsServerIter
             /\ Contains(riskZones[idx], latitude, longitude)
             /\ timeRisk(riskZones[idx], timeOfDay(hour)) = highestRisk.score)
            => highestRisk' = highestRisk
        /\ (/\ IsClientIter
             /\ Contains(riskZones[idx], latitude, longitude)
             /\ ~riskZones[idx].time_of_day_risk.isNull
             /\ timeRisk(riskZones[idx], timeOfDay(hour)) = clientRisk.score)
            => clientRisk' = clientRisk
        /\ FirstWins(highestRisk', clientRisk', pcEval', idx') ]_vars

C27_Witness ==
    /\ pcEval = "done" /\ Len(riskZones) = 2
    /\ Contains(riskZones[1], latitude, longitude)
    /\ Contains(riskZones[2], latitude, longitude)
    /\ timeRisk(riskZones[1], timeOfDay(hour)) = timeRisk(riskZones[2], timeOfDay(hour))
    /\ riskZones[1].risk_level # riskZones[2].risk_level
    /\ highestRisk.inZone /\ highestRisk.zone = riskZones[1]
    /\ clientRisk.zone = riskZones[1]

\* a running result of the server, hr, and one of the client, cr, are well-formed
WellFormed(hr, cr) ==
    /\ hr.zone = NoZone <=> (hr.score = 0 /\ hr.level = "safe" /\ ~hr.inZone)
    /\ hr.inZone => hr.zone # NoZone /\ Contains(hr.zone, latitude, longitude)
    /\ (hr.zone # NoZone /\ ~hr.inZone) =>
            /\ hr.level = "at_risk"
            /\ 2 * hr.score = hr.zone.risk_score
            /\ InBand(hr.zone)
    /\ cr.zone = NoZone <=> (cr.score = 0 /\ cr.level = "safe")
    /\ cr.zone # NoZone =>
            \/ Contains(cr.zone, latitude, longitude)
            \/ /\ cr.level = "at_risk"
               /\ 2 * cr.score = cr.zone.risk_score
               /\ InBand(cr.zone)

\* C28: after every step of an evaluation no zone is selected exactly when the
\* score is 0 and the level safe with inside = false; inside = true means the
\* selected zone contains the point; a selected zone with inside = false means
\* level at_risk, half the zone's base score and the point in its approach
\* band; and no step lowers the score.
C28_RunningResultWellFormed ==
    [][ /\ WellFormed(highestRisk', clientRisk')
        /\ highestRisk'.score >= highestRisk.score
        /\ clientRisk'.score >= clientRisk.score ]_vars

C28_Witness ==
    /\ pcEval = "done" /\ Len(riskZones) = 2
    /\ InBand(riskZones[1]) /\ riskZones[1].risk_score > 0
    /\ highestRisk.inZone /\ highestRisk.zone = riskZones[2]
    /\ 2 * highestRisk.score > riskZones[1].risk_score
    /\ clientRisk.zone = riskZones[2]

\* ---------------------------------------------------- claims on the hook
\* the position is beyond 1.5 x radius of every zone of zs
OutOfReach(zs, loc) ==
    \A k \in 1..Len(zs) :
        2 * getDistanceInMeters(loc.latitude, loc.longitude, zs[k].latitude, zs[k].longitude)
            > 3 * zs[k].radius_meters

\* C11 (as stated): with an empty risk_zones table the risk shown by the client
\* and the risk returned by the server are the safe default, level safe and
\* score 0, for every location.
C11_EmptySourceIsSafe ==
    riskZones = <<>> =>
        /\ currentRisk = "safe" /\ riskScore = 0
        /\ highestRisk.level = "safe" /\ highestRisk.score = 0

\* C11 (amended): with an empty risk_zones table the server returns the safe
\* default for every location; the client evaluates its two built-in sample
\* zones in place of the empty sequence, so once the fetch has ended and a
\* position is known it shows the safe default exactly for a position beyond
\* 1.5 x radius of both sample zones, and before that the initial safe default.
C11_EmptySourceFallsBackToSamples ==
    riskZones = <<>> =>
        /\ highestRisk = InitialRisk
        /\ ~isLoading => riskZonesState = sampleRiskZones
        /\ (isLoading \/ ~location.known) =>
                currentRisk = "safe" /\ riskScore = 0 /\ nearbyRiskZone = NoZone
        /\ (~isLoading /\ location.known) =>
            /\ (currentRisk = "safe" /\ riskScore = 0) <=> OutOfReach(sampleRiskZones, location)
            /\ nearbyRiskZone = NoZone <=> OutOfReach(sampleRiskZones, location)
            /\ nearbyRiskZone # NoZone =>
                    \E k \in 1..Len(sampleRiskZones) : nearbyRiskZone = sampleRiskZones[k]

C11_Witness ==
    /\ riskZones = <<>>
    /\ ~isLoading
    /\ location = LocationAt(MaxCoord, MaxLon)
    /\ currentRisk = "emergency"
    /\ latitude = MaxCoord
    /\ highestRisk = InitialRisk

\* C23: while the component is mounted, once the zones are loaded and a
\* location is known, currentRisk, riskScore and nearbyRiskZone are the result
\* of checkRiskAtLocation for the latest location; for the position far from
\* every zone that is the safe default, whatever was shown before.
C23_DisplayedIsLatestEvaluation ==
    (~unmountedByError /\ ~isLoading /\ location.known) =>
        LET r == checkRiskAtLocation(riskZonesState, location.latitude, location.longitude, hour)
        IN /\ ~r.threw
           /\ currentRisk = r.level
           /\ riskScore = r.score
           /\ nearbyRiskZone = r.zone
           /\ location = LocationAt(40, 0) =>
                currentRisk = "safe" /\ riskScore = 0 /\ nearbyRiskZone = NoZone

\* the zones of the table are loaded and the latest position is the far one
C23_Witness ==
    /\ ~unmountedByError /\ ~isLoading
    /\ riskZones # <<>> /\ riskZonesState = riskZones
    /\ location = LocationAt(40, 0)
    /\ currentRisk = "safe" /\ riskScore = 0 /\ nearbyRiskZone = NoZone

\* the positions of a state: the one of the request, the one of the client and
\* the centres of the zones of the table and of the hook
Positions ==
    {<<latitude, longitude>>}
    \cup (IF location.known THEN {<<location.latitude, location.longitude>>} ELSE {})
    \cup { <<riskZones[k].latitude, riskZones[k].longitude>> : k \in 1..Len(riskZones) }
    \cup { <<riskZonesState[k].latitude, riskZonesState[k].longitude>> :
                k \in 1..Len(riskZonesState) }

C30_SingleWatch ==
    /\ Cardinality(watches) <= 1
    /\ watches = IF watchIdRef = 0 THEN {} ELSE {watchIdRef}
    /\ ~unmountedByError => (isTracking <=> watches # {})
    /\ lastTrackingCall = "stop" => watches = {}

\* a second watch was handed out after the first was cleared, and startTracking
\* was then called again
C30_Witness ==
    /\ ~unmountedByError
    /\ lastTrackingCall = "start"
    /\ nextWatchId = MaxWatches + 1 /\ watches = {MaxWatches} /\ isTracking
    /\ location.known

\* ------------------------------------------- claims on failures and frames
\* the gate of a check-risk-zone request, on what the request evaluated and read
GateFires(r) ==
    r.result.inZone /\ r.result.level = "emergency" /\ r.userId # "" /\ r.prefs = "true"

\* C18: a check-risk-zone request whose zone fetch failed is answered with the
\* error response (status 500, a message, no riskLevel, riskScore or
\* inRiskZone) and writes no incident and no alert.
C18_ZoneFetchFailure ==
    \A s \in Slots :
        (req[s].kind = "risk" /\ req[s].zonesRead = "error") =>
            /\ req[s].pc = "done"
            /\ RiskResponse(req[s]).status = 500
            /\ "error" \in RiskResponse(req[s]).fields
            /\ RiskResponse(req[s]).fields \cap {"riskLevel", "riskScore", "inRiskZone"} = {}
            /\ req[s].incidentInsert = "none" /\ req[s].alertsInsert = "none"
            /\ IncidentsBy(req[s].no) = {} /\ AlertsBy(req[s].no) = {}

C18_Witness ==
    \E s \in Slots :
        /\ req[s].kind = "risk" /\ req[s].zonesRead = "error" /\ req[s].pc = "done"
        /\ req[s].userId = UserId /\ req[s].latitude = 0
        /\ riskZones # <<>> /\ prefs = "true"
        /\ Len(incidents) > 0

\* C19: on check-risk-zone and on send-sos-alert a request whose incident
\* insert or alert batch insert failed is answered with an error response.
C19_WriteFailureIsError ==
    \A s \in Slots :
        (/\ req[s].kind \in {"risk", "sos"} /\ req[s].pc = "done"
         /\ \/ req[s].incidentInsert \in {"error", "lost"}
            \/ req[s].alertsInsert = "error")
        => req[s].response = "error"

\* C20: a check-risk-zone request whose zones were fetched and whose gate does
\* not fire writes no incident and no alert and is answered with the normal
\* evaluation response.
C20_NoFireNoWrite ==
    \A s \in Slots :
        (/\ req[s].kind = "risk" /\ req[s].zonesRead = "ok"
         /\ req[s].pc \notin {"readPrefs"}
         /\ ~GateFires(req[s]))
        => /\ req[s].pc = "done"
           /\ req[s].incidentInsert = "none" /\ req[s].alertsInsert = "none"
           /\ IncidentsBy(req[s].no) = {} /\ AlertsBy(req[s].no) = {}
           /\ RiskResponse(req[s]).status = 200
           /\ "error" \notin RiskResponse(req[s]).fields
           /\ RiskResponse(req[s]).riskLevel = req[s].result.level
           /\ RiskResponse(req[s]).riskScore = req[s].result.score
           /\ RiskResponse(req[s]).inRiskZone = req[s].result.inZone

C20_Witness ==
    \E s \in Slots :
        /\ req[s].kind = "risk" /\ req[s].pc = "done" /\ req[s].zonesRead = "ok"
        /\ req[s].userId = UserId
        /\ req[s].result.inZone /\ req[s].result.level = "emergency"
        /\ req[s].prefs = "false"
        /\ req[s].response = "ok"
        /\ Len(incidents) > 0 /\ Len(alerts) > 0
        /\ IncidentsBy(req[s].no) = {}

\* ------------------------------------------ claims on batches and interleavings
\* C21: when a request has ended, the alerts it stored for its incident are all
\* of the alerts it built for it or none of them, on check-risk-zone, on
\* send-sos-alert and in handleSOS; and every stored alert has the latitude and
\* longitude of its incident.
C21_AlertsAllOrNone ==
    /\ \A s \in Slots :
        req[s].pc = "done" =>
            Cardinality(AlertsBy(req[s].no)) \in {0, Len(req[s].alertsToCreate)}
    /\ \A k \in 1..Len(alerts) :
        \A i \in 1..Len(incidents) :
            incidents[i].id = alerts[k].incident_id =>
                /\ alerts[k].latitude = incidents[i].latitude
                /\ alerts[k].longitude = incidents[i].longitude

\* the store holds a risk_zone_entry incident of another request for the user
\* and the position of request r
PriorEntry(r) ==
    \E k \in 1..Len(incidents) :
        /\ incidents[k].alert_type = "risk_zone_entry"
        /\ incidents[k].user_id = r.userId
        /\ incidents[k].latitude = r.latitude /\ incidents[k].longitude = r.longitude
        /\ incidents[k].by # r.no

\* C22: a check-risk-zone request of a user inside an emergency zone passes the
\* auto-alert gate and, with the preference read as true, inserts its own
\* incident although the store already holds a risk_zone_entry incident of
\* another request for the same user and position.
C22_SecondRequestStillFires ==
    \A s \in Slots :
        (/\ req[s].kind = "risk" /\ req[s].zonesRead = "ok"
         /\ req[s].userId # ""
         /\ req[s].result.inZone /\ req[s].result.level = "emergency"
         /\ PriorEntry(req[s]))
        => /\ req[s].pc = "readPrefs" \/ req[s].prefs # "unread"
           /\ req[s].prefs = "true" =>
                \/ req[s].pc = "insertIncident"
                \/ /\ req[s].fired
                   /\ req[s].incidentInsert # "error" =>
                        Cardinality(IncidentsBy(req[s].no)) = 1

\* two requests in flight together, the one that started later stored its
\* incident first
C22_Witness ==
    \E s, t \in Slots :
        /\ req[s].kind = "risk" /\ req[t].kind = "risk"
        /\ req[s].pc = "done" /\ req[t].pc = "done"
        /\ req[s].userId = UserId /\ req[t].userId = UserId
        /\ req[s].latitude = req[t].latitude /\ req[s].longitude = req[t].longitude
        /\ req[s].no < req[t].no
        /\ req[t].incident # 0 /\ req[s].incident > req[t].incident
        /\ Cardinality({ k \in 1..Len(incidents) :
                            /\ incidents[k].alert_type = "risk_zone_entry"
                            /\ incidents[k].user_id = UserId
                            /\ incidents[k].latitude = req[s].latitude }) = 2

\* ------------------------------------------------- claims on the SOS button
\* the calls of onSOS made by press gesture g
CallsOf(g) == { k \in 1..Len(calls) : calls[k].gesture = g }

\* the incidents stored by the calls of press gesture g
IncidentsOfGesture(g) ==
    { i \in 1..Len(incidents) : \E k \in CallsOf(g) : incidents[i].by = calls[k].no }

\* C24: one press gesture on the SOS button invokes onSOS at most once and
\* stores at most one incident.
C24_OncePerGesture ==
    \A g \in 1..gestureNo :
        /\ Cardinality(CallsOf(g)) <= 1
        /\ Cardinality(IncidentsOfGesture(g)) <= 1

\* C25: onSOS is never invoked by a press that was released while the
\* 1 second timeout of the hold was still pending.
C25_OnlyAfterHold ==
    \A k \in 1..Len(calls) : ~calls[k].early

\* C29: the button shows its SOS Alert Sent notification for a call of onSOS
\* only if that call stored an incident.
C29_SentOnlyWithIncident ==
    \A t \in toasts : t.title = "sent" => IncidentsBy(t.no) # {}

====
